---- MODULE Spec2Model ----
(***************************************************************************)
(* Model of the GW2 optimal lister (src/gw2_api_lister_v2.py; script.py is *)
(* the earlier version of the same program): the shared name -> id cache,  *)
(* the cache builder, the search workers, the snapshot file and the two    *)
(* queues drained by the Tk main loop.                                     *)
(*                                                                         *)
(* Threads: the Tk main thread (its handlers are the Gui... actions), the  *)
(* startup loader thread, one thread per build_item_cache call and one per *)
(* fetch_api_data call.  A worker's "with cache_lock:" block is one step,  *)
(* taken when the lock is free; what a worker does outside such a block is *)
(* a step of its own, so it interleaves with the other threads' blocks.    *)
(* The main thread can hold the lock across a modal dialog, so the holder  *)
(* is a variable.  A thread's locals are one record, reset when it ends.   *)
(***************************************************************************)
EXTENDS Integers, Sequences, FiniteSets, TLC

\* ------------------------------------------------------------------ bounds

\* Batch size of the item-detail requests (200 in the program; scaled down).
API_BATCH_SIZE == 2
\* Length of the non-empty catalog (list of tradeable ids) the remote returns.
MaxCatalog == 3
\* Most tuples the status queue and the result queue hold at once (the
\* program's queues are unbounded).
MaxQueue == 2
MaxResults == 1

\* Worker threads that can exist at once.
Builders == {"b1", "b2"}
Searchers == {"s1"}
Main == "main"
Free == "free"

\* ----------------------------------------------------------- remote data

\* The remote item database: the name the /v2/items endpoint returns for an id.
\* Ids 1 and 3 collide on the lower-cased name; id 4 has an empty name; id 9
\* is an item that is not tradeable, so no catalog lists it.
RemoteName(id) ==
  CASE id = 1 -> "Ore"
    [] id = 2 -> "Gem"
    [] id = 3 -> "ORE"
    [] id = 4 -> ""
    [] id = 9 -> "Axe"
    [] OTHER -> "Gem"

\* str.lower() on the strings of the model.
Lower(s) ==
  CASE s = "Ore" -> "ore"
    [] s = "ORE" -> "ore"
    [] s = "Gem" -> "gem"
    [] s = "GEM" -> "gem"
    [] s = "Axe" -> "axe"
    [] OTHER -> s

\* What the user can type into the entry.
Identifiers == {"Ore", "9"}

\* str.isdigit() and int() on the identifiers of the model.
IsDigit(s) == s \in {"0", "1", "2", "3", "9"}

ToInt(s) ==
  CASE s = "0" -> 0
    [] s = "1" -> 1
    [] s = "2" -> 2
    [] s = "3" -> 3
    [] OTHER -> 9

\* The catalogs the price-index endpoint can return: none, or 1, 2, 3, ...
Catalogs == {<<>>, [k \in 1..MaxCatalog |-> k]}

\* ------------------------------------------------------------ dictionaries

EmptyDict == [k \in {} |-> 0]

\* An assignment that rebinds the dict to the one entry.
DictPut_Alone(d, k, v) == [x \in {k} |-> v]

\* d[k] = v of a Python dict.
DictPut(d, k, v) == [x \in (DOMAIN d) \cup {k} |-> IF x = k THEN v ELSE d[x]]

\* A JSON value that is no integer (a string, null, a list), as json.load
\* returns it among the values of an object.
NotInt == -2

\* A dump that writes every id as a string.
JsonDump_IdsAsStrings(d) == {<<k, NotInt>> : k \in DOMAIN d}

\* json.dump of a dict: the members of the JSON object written.
JsonDump(d) == {<<k, d[k]>> : k \in DOMAIN d}

\* json.load of a JSON object: the dict of its members.
JsonLoad(members) ==
  [k \in {m[1] : m \in members} |-> (CHOOSE m \in members : m[1] = k)[2]]

\* The snapshot file: absent, unparsable (also: truncated or partly written),
\* JSON that is not an object, or a JSON object.
FileAbsent == [kind |-> "absent", members |-> {}]
FileCorrupt == [kind |-> "corrupt", members |-> {}]
FileNotDict == [kind |-> "notdict", members |-> {}]
FileDict(d) == [kind |-> "dict", members |-> JsonDump(d)]

\* The snapshot files the program can find at startup.
InitialFiles ==
  {FileAbsent, FileCorrupt, FileNotDict, FileDict(EmptyDict),
   FileDict(DictPut(EmptyDict, "gem", 2))}

\* The snapshot files a run of the program can find: those above, and a JSON
\* object with a value that is no integer.
StoreFiles == InitialFiles \cup {FileDict(DictPut(EmptyDict, "gem", NotInt))}

\* A queue tuple: (type, text) with the number the text carries (0: none).
Msg(type, text, n) == <<type, text, n>>

\* ------------------------------------------------------------------ state

\* The locals of a build_item_cache thread that is not running. History
\* kept with them: prior_cache and prior_file are the global dict and the
\* file as the build began, fetched and skipped the batches (values of i)
\* merged and given up so far.
IdleBuilder ==
  [pc |-> "idle", force_rebuild |-> FALSE, success |-> FALSE,
   temp_cache |-> EmptyDict, tp_item_ids |-> <<>>, i |-> 0, attempt |-> 0,
   dump_view |-> EmptyDict, dump_state |-> "none",
   prior_cache |-> EmptyDict, prior_file |-> FileAbsent,
   fetched |-> {}, skipped |-> {}]

\* None as the value of item_id, of a price or of a quantity.
NoneId == -1

\* The locals of a fetch_api_data thread that is not running.
IdleSearcher ==
  [pc |-> "idle", item_identifier |-> "", item_id |-> 0, confirmed_name |-> "",
   failure |-> "", buy_info |-> {}, sell_info |-> {},
   buy_price |-> 0, sell_price |-> 0, sell_qty |-> 0]

VARIABLES
  item_id_cache,   \* the global dict name.lower() -> id
  cache_loaded,    \* global flag
  cache_building,  \* global flag
  cache_lock,      \* Main while the main thread holds the global lock, or Free
  cache_file,      \* content of CACHE_FILE
  status_queue,    \* OptimalListerApp.status_queue
  result_queue,    \* OptimalListerApp.result_queue
  controls,        \* search button and entry enabled?
  gui_pc,          \* main thread: "idle", "showinfo" (dialog open), "hung"
  display,         \* the result labels as clear_results / display_results set them
  load_pc,         \* loader thread: "start", "done"
  build,           \* per build thread: pc and locals; dump_view is the dict as
                   \* json.dump began to iterate it, dump_state whether that
                   \* dict is still the global one ("live"), no longer
                   \* ("detached") or was resized meanwhile ("dirty")
  search           \* per search thread: pc and locals

vars ==
  <<item_id_cache, cache_loaded, cache_building, cache_lock, cache_file,
    status_queue, result_queue, controls, gui_pc, display, load_pc, build, search>>

\* clear_results: every result label shows "N/A". The labels are kept by
\* what they show: the name, the two prices and the suggested list price in
\* copper (NoneId for "N/A"), the suggested quantity as the form of its text
\* with the number in it, the profit text without its numbers, and the
\* profit difference in hundredths of a copper.
ClearedResults ==
  [confirmed_name |-> "N/A", buy_price |-> NoneId, sell_price |-> NoneId,
   suggested_price |-> NoneId, suggested_qty |-> <<"N/A", 0>>,
   profit_info |-> "N/A", profit |-> 0, profit_shown |-> <<"N/A", 0, 0, 0>>]

shared == <<item_id_cache, cache_loaded, cache_building, cache_file>>

\* Room for n more tuples (the model bounds the queues).
StatusRoom(n) == Len(status_queue) + n <= MaxQueue

\* Room in the result queue for the one tuple of each search that runs and
\* of one more: the model lets a search start only then, so that no search
\* thread ever waits for room.
ResultRoom ==
  Len(result_queue) + Cardinality({s \in Searchers : search[s].pc # "idle"}) < MaxResults

Init ==
  /\ item_id_cache = EmptyDict
  /\ cache_loaded = FALSE
  /\ cache_building = FALSE
  /\ cache_lock = Free
  /\ cache_file \in InitialFiles
  /\ status_queue = <<>>
  /\ result_queue = <<>>
  /\ controls = FALSE
  /\ gui_pc = "idle"
  /\ display = ClearedResults
  /\ load_pc = "start"
  /\ build = [b \in Builders |-> IdleBuilder]
  /\ search = [s \in Searchers |-> IdleSearcher]

\* ------------------------------------------------------- load_item_cache

\* What the body of load_item_cache does with the file it finds; io_error is
\* an IOError while reading an existing file.
LoadOutcome(file, io_error) ==
  IF file.kind = "absent" THEN
    [loaded |-> FALSE, reset |-> FALSE,
     msgs |-> <<Msg("info", "Cache file not found. Building cache...", 0)>>]
  ELSE IF io_error \/ file.kind = "corrupt" THEN
    [loaded |-> FALSE, reset |-> TRUE,
     msgs |-> <<Msg("info", "Loading cache from file...", 0),
                Msg("info", "Cache load error. Rebuilding...", 0)>>]
  ELSE IF file.kind = "dict" THEN
    [loaded |-> TRUE, reset |-> FALSE,
     msgs |-> <<Msg("info", "Loading cache from file...", 0),
                Msg("success", "Cache loaded. Ready.", 0)>>]
  ELSE
    [loaded |-> FALSE, reset |-> TRUE,
     msgs |-> <<Msg("info", "Loading cache from file...", 0),
                Msg("info", "Invalid cache file format. Rebuilding...", 0)>>]

\* load_item_cache: the whole function runs under the lock. Binding the
\* global name to another dict leaves a dict that is being dumped behind.
LoadItemCache ==
  /\ load_pc = "start"
  /\ cache_lock = Free
  /\ load_pc' = "done"
  /\ IF cache_loaded THEN
       UNCHANGED <<shared, status_queue, build>>
     ELSE
       \E io_error \in BOOLEAN :
         LET out == LoadOutcome(cache_file, io_error) IN
           /\ StatusRoom(Len(out.msgs))
           /\ status_queue' = status_queue \o out.msgs
           /\ cache_loaded' = out.loaded
           /\ item_id_cache' =
                IF out.loaded THEN JsonLoad(cache_file.members)
                ELSE IF out.reset THEN EmptyDict
                ELSE item_id_cache
           /\ build' = [x \in Builders |->
                IF (out.loaded \/ out.reset) /\ build[x].dump_state = "live"
                  THEN [build[x] EXCEPT !.dump_state = "detached"]
                  ELSE build[x]]
           /\ UNCHANGED <<cache_building, cache_file>>
  /\ UNCHANGED <<display, cache_lock, result_queue, controls, gui_pc, search>>

\* ------------------------------------------------------ build_item_cache

\* retries: int = 2
retries == 2

\* math.ceil(total_items / API_BATCH_SIZE)
NumBatches(total_items) == (total_items + API_BATCH_SIZE - 1) \div API_BATCH_SIZE

Min(a, b) == IF a <= b THEN a ELSE b

\* A slice that is the whole list in every iteration.
BatchIds_Whole(ids, i) == ids

\* tp_item_ids[batch_start:batch_end] of iteration i (0-based).
BatchIds(ids, i) ==
  SubSeq(ids, i * API_BATCH_SIZE + 1, Min((i + 1) * API_BATCH_SIZE, Len(ids)))

\* The records the item endpoint returns for a batch of ids.
ItemDetails(ids) == [j \in 1..Len(ids) |-> [id |-> ids[j], name |-> RemoteName(ids[j])]]

\* A merge loop in which the first record of a name wins.
RECURSIVE MergeRecords_FirstWins(_, _)
MergeRecords_FirstWins(cache, records) ==
  IF records = <<>> THEN cache
  ELSE LET item == Head(records)
           merged == IF item.name # "" /\ Lower(item.name) \notin DOMAIN cache
                       THEN DictPut(cache, Lower(item.name), item.id)
                       ELSE cache
       IN MergeRecords_FirstWins(merged, Tail(records))

\* The merge loop over item_details: a record with a non-empty name sets
\* temp_cache[name.lower()] = id; later records overwrite earlier ones.
RECURSIVE MergeRecords(_, _)
MergeRecords(cache, records) ==
  IF records = <<>> THEN cache
  ELSE LET item == Head(records)
           merged == IF item.name # ""
                       THEN DictPut(cache, Lower(item.name), item.id)
                       ELSE cache
       IN MergeRecords(merged, Tail(records))

\* A guard that forgets the "already loaded" return.
BuildGuardVerdict_NoLoadedCheck(building, loaded, force) ==
  IF building /\ ~force THEN "progress" ELSE "run"

\* The guard at the top of build_item_cache: "progress", "loaded" (both
\* return at once) or "run".
BuildGuardVerdict(building, loaded, force) ==
  IF building /\ ~force THEN "progress"
  ELSE IF loaded /\ ~force THEN "loaded"
  ELSE "run"

\* The first "with cache_lock:" block: return at once, or mark the cache as
\* building. The status put that follows the block is part of the step.
BuildGuard(b) ==
  /\ build[b].pc = "start"
  /\ cache_lock = Free
  /\ StatusRoom(1)
  /\ LET verdict == BuildGuardVerdict(cache_building, cache_loaded, build[b].force_rebuild) IN
       CASE verdict = "progress" ->
              /\ status_queue' = Append(status_queue, Msg("info", "Cache build already in progress.", 0))
              /\ build' = [build EXCEPT ![b] = IdleBuilder]
              /\ UNCHANGED shared
         [] verdict = "loaded" ->
              /\ status_queue' = Append(status_queue, Msg("info", "Cache already loaded.", 0))
              /\ build' = [build EXCEPT ![b] = IdleBuilder]
              /\ UNCHANGED shared
         [] OTHER ->
              /\ cache_building' = TRUE
              /\ cache_loaded' = FALSE
              /\ status_queue' = Append(status_queue, Msg("info", "Building item cache (this may take a few minutes)...", 0))
              /\ build' = [build EXCEPT ![b].pc = "fetch_ids",
                                        ![b].prior_cache = item_id_cache,
                                        ![b].prior_file = cache_file]
              /\ UNCHANGED <<item_id_cache, cache_file>>
  /\ UNCHANGED <<display, cache_lock, result_queue, controls, gui_pc, load_pc, search>>

\* A test that lets an empty list of ids through.
EmptyCatalog_Never(ids) == FALSE

\* "if total_items == 0" on the list of ids the remote returned.
EmptyCatalog(ids) == Len(ids) = 0

\* The request for the tradeable ids: a RequestException, an empty list
\* (ValueError) or a list of ids.
BuildFetchIdsOf(b, catalogs) ==
  /\ build[b].pc = "fetch_ids"
  /\ StatusRoom(2)
  /\ \/ /\ status_queue' = status_queue \o
             <<Msg("info", "Fetching price list IDs...", 0),
               Msg("error", "API Error building cache", 0)>>
        /\ build' = [build EXCEPT ![b].pc = "finally"]
     \/ \E ids \in catalogs :
          IF EmptyCatalog(ids) THEN
            /\ status_queue' = status_queue \o
                 <<Msg("info", "Fetching price list IDs...", 0),
                   Msg("error", "Cache Build Error: API returned empty list of tradable items.", 0)>>
            /\ build' = [build EXCEPT ![b].pc = "finally"]
          ELSE
            /\ status_queue' = status_queue \o
                 <<Msg("info", "Fetching price list IDs...", 0),
                   Msg("info", "Found items. Fetching details...", Len(ids))>>
            /\ build' = [build EXCEPT ![b].pc = "batch", ![b].tp_item_ids = ids,
                                      ![b].i = 0, ![b].attempt = 0]
  /\ UNCHANGED <<display, shared, cache_lock, result_queue, controls, gui_pc, load_pc, search>>

BuildFetchIds(b) == BuildFetchIdsOf(b, Catalogs)

\* The tuple put at the top of the loop body, before the first attempt.
ProgressMsgs(b) ==
  IF build[b].attempt = 0
    THEN <<Msg("info", "Fetching details: Batch...", build[b].i + 1)>>
    ELSE <<>>

\* The locals after batch i is done (merged if ok, else skipped), temp being
\* the temp_cache then: the next iteration, or the code after the loop.
AfterBatch(b, temp, ok) ==
  LET done == [build[b] EXCEPT
                 !.temp_cache = temp,
                 !.fetched = IF ok THEN build[b].fetched \cup {build[b].i} ELSE build[b].fetched,
                 !.skipped = IF ok THEN build[b].skipped ELSE build[b].skipped \cup {build[b].i}]
  IN IF build[b].i + 1 < NumBatches(Len(build[b].tp_item_ids))
       THEN [done EXCEPT !.i = build[b].i + 1, !.attempt = 0]
       ELSE [done EXCEPT !.pc = "complete"]

\* A retry test that allows one attempt more.
RetryAgain_OneMore(att) == att <= retries

\* A failed attempt: sleep and try again while attempt < retries.
RetryAgain(att) == att < retries

\* A merge loop whose writes go to the global dict as well.
LiveAfterMerge_WritesLive(live, temp) == temp

\* The global dict after the merge loop has filled temp: the loop writes
\* the local temp_cache only.
LiveAfterMerge(live, temp) == live

\* One attempt of the item-detail request of batch i succeeds: merge.
BuildBatchOk(b) ==
  /\ build[b].pc = "batch"
  /\ StatusRoom(Len(ProgressMsgs(b)))
  /\ status_queue' = status_queue \o ProgressMsgs(b)
  /\ LET temp == MergeRecords(build[b].temp_cache,
                   ItemDetails(BatchIds(build[b].tp_item_ids, build[b].i))) IN
       /\ build' = [build EXCEPT ![b] = AfterBatch(b, temp, TRUE)]
       /\ item_id_cache' = LiveAfterMerge(item_id_cache, temp)
  /\ UNCHANGED <<display, cache_loaded, cache_building, cache_file, cache_lock, result_queue, controls, gui_pc, load_pc, search>>

\* One attempt fails with a RequestException: time.sleep(1) is entered, or
\* after the last attempt the batch is skipped.
BuildBatchError(b) ==
  /\ build[b].pc = "batch"
  /\ IF RetryAgain(build[b].attempt) THEN
       /\ StatusRoom(Len(ProgressMsgs(b)))
       /\ status_queue' = status_queue \o ProgressMsgs(b)
       /\ build' = [build EXCEPT ![b].pc = "sleep"]
     ELSE
       /\ StatusRoom(Len(ProgressMsgs(b)) + 1)
       /\ status_queue' = status_queue \o ProgressMsgs(b) \o
            <<Msg("info", "Error fetching batch. Some items missing.", build[b].i + 1)>>
       /\ build' = [build EXCEPT ![b] = AfterBatch(b, build[b].temp_cache, FALSE)]
  /\ UNCHANGED <<display, shared, cache_lock, result_queue, controls, gui_pc, load_pc, search>>

\* time.sleep(1) returns: the next attempt of the same batch.
BuildSleep(b) ==
  /\ build[b].pc = "sleep"
  /\ build' = [build EXCEPT ![b].pc = "batch", ![b].attempt = build[b].attempt + 1]
  /\ UNCHANGED <<display, shared, cache_lock, status_queue, result_queue, controls, gui_pc, load_pc, search>>

\* A merge error handled like a request that failed for the last time.
AfterMergeError_AsSkip(b, temp) == AfterBatch(b, temp, FALSE)

\* The locals after an exception that is no RequestException has left the
\* merge loop with temp as temp_cache: it leaves both for loops and the
\* try block for "except Exception", and the finally block is next.
AfterMergeError(b, temp) == [build[b] EXCEPT !.temp_cache = temp, !.pc = "finally"]

\* The response holds a named record without an "id" as its last record:
\* the records before it are merged, then KeyError leaves the loop and the
\* try block.
BuildBatchBadRecord(b) ==
  /\ build[b].pc = "batch"
  /\ StatusRoom(Len(ProgressMsgs(b)) + 1)
  /\ LET records == ItemDetails(BatchIds(build[b].tp_item_ids, build[b].i)) IN
       /\ records[Len(records)].name # ""
       /\ build' = [build EXCEPT ![b] =
            AfterMergeError(b, MergeRecords(build[b].temp_cache,
                                            SubSeq(records, 1, Len(records) - 1)))]
  /\ status_queue' = status_queue \o ProgressMsgs(b) \o
       <<Msg("error", "Unexpected error building cache", 0)>>
  /\ UNCHANGED <<display, shared, cache_lock, result_queue, controls, gui_pc, load_pc, search>>

\* After the loop with an empty temp_cache: the no-items error.
BuildNoItems(b) ==
  /\ build[b].pc = "complete"
  /\ build[b].temp_cache = EmptyDict
  /\ StatusRoom(1)
  /\ status_queue' = Append(status_queue, Msg("error", "Failed to build item cache (no items).", 0))
  /\ build' = [build EXCEPT ![b].pc = "finally"]
  /\ UNCHANGED <<display, shared, cache_lock, result_queue, controls, gui_pc, load_pc, search>>

\* A swap that keeps the keys of the previous dict.
SwapResult_KeepsOld(live, temp) ==
  [k \in (DOMAIN live) \cup (DOMAIN temp) |-> IF k \in DOMAIN temp THEN temp[k] ELSE live[k]]

\* What the swap makes of the live dict: item_id_cache = temp_cache.
SwapResult(live, temp) == temp

\* After the loop with a non-empty temp_cache: the swap under the lock. A
\* dict another thread is dumping is no longer the global one afterwards.
BuildSwap(b) ==
  /\ build[b].pc = "complete"
  /\ build[b].temp_cache # EmptyDict
  /\ cache_lock = Free
  /\ item_id_cache' = SwapResult(item_id_cache, build[b].temp_cache)
  /\ build' = [x \in Builders |->
       IF x = b THEN [build[x] EXCEPT !.pc = "save"]
       ELSE IF build[x].dump_state = "live" THEN [build[x] EXCEPT !.dump_state = "detached"]
       ELSE build[x]]
  /\ UNCHANGED <<display, cache_loaded, cache_building, cache_lock, cache_file, status_queue, result_queue, controls, gui_pc, load_pc, search>>

\* ------------------------------------------------------- save_item_cache

\* After save_item_cache has returned: the success tuple and success = True.
BuildSaved(b) ==
  /\ StatusRoom(1)
  /\ status_queue' = Append(status_queue, Msg("success", "Item cache built and saved. Ready.", 0))
  /\ build' = [build EXCEPT ![b] =
       [build[b] EXCEPT !.success = TRUE, !.pc = "finally",
                        !.dump_view = EmptyDict, !.dump_state = "none"]]

\* open(CACHE_FILE, "w") truncates the file and json.dump starts to iterate
\* over the global dict; or open raises IOError, which save_item_cache
\* catches.
SaveOpen(b) ==
  /\ build[b].pc = "save"
  /\ \/ /\ cache_file' = FileCorrupt
        /\ build' = [build EXCEPT ![b].pc = "dump", ![b].dump_view = item_id_cache,
                                  ![b].dump_state = "live"]
        /\ UNCHANGED status_queue
     \/ /\ BuildSaved(b)
        /\ UNCHANGED cache_file
  /\ UNCHANGED <<display, item_id_cache, cache_loaded, cache_building, cache_lock, result_queue, controls, gui_pc, load_pc, search>>

\* json.dump ends: the dict was resized while it was iterated (RuntimeError,
\* which is no IOError and leaves save_item_cache and the try block), or the
\* file now holds the dict, or a write failed with IOError (caught).
SaveWrite(b) ==
  /\ build[b].pc = "dump"
  /\ IF build[b].dump_state = "dirty" THEN
       /\ StatusRoom(1)
       /\ status_queue' = Append(status_queue, Msg("error", "Unexpected error building cache", 0))
       /\ build' = [build EXCEPT ![b] =
            [build[b] EXCEPT !.pc = "finally", !.dump_view = EmptyDict, !.dump_state = "none"]]
       /\ UNCHANGED cache_file
     ELSE
       /\ BuildSaved(b)
       /\ \/ cache_file' = FileDict(build[b].dump_view)
          \/ cache_file' = FileCorrupt
  /\ UNCHANGED <<display, item_id_cache, cache_loaded, cache_building, cache_lock, result_queue, controls, gui_pc, load_pc, search>>

\* A finally block that always marks the cache loaded.
FinallyLoaded_Always(ok, live) == TRUE

\* cache_loaded as the finally block leaves it.
FinallyLoaded(ok, live) == ok \/ live # EmptyDict

\* The finally block under the lock: the flags, and a tuple when the build
\* failed. The thread ends.
BuildFinally(b) ==
  /\ build[b].pc = "finally"
  /\ cache_lock = Free
  /\ cache_building' = FALSE
  /\ cache_loaded' = FinallyLoaded(build[b].success, item_id_cache)
  /\ IF build[b].success THEN
       UNCHANGED status_queue
     ELSE
       /\ StatusRoom(1)
       /\ status_queue' = Append(status_queue,
            IF item_id_cache # EmptyDict
              THEN Msg("info", "Cache build incomplete. Using previous/partial cache.", 0)
              ELSE Msg("error", "Cache build failed. Try again or use Item IDs.", 0))
  /\ build' = [build EXCEPT ![b] = IdleBuilder]
  /\ UNCHANGED <<display, item_id_cache, cache_lock, cache_file, result_queue, controls, gui_pc, load_pc, search>>

\* -------------------------------------------------------- fetch_api_data

\* find_item_id_by_name: item_id_cache.get(item_name_lower)
find_item_id_by_name(cache, item_name_lower) ==
  IF item_name_lower \in DOMAIN cache THEN cache[item_name_lower] ELSE NoneId

\* "if item_id:" on the value the lookup returned.
Truthy(id) == id # NoneId /\ id # 0

\* A search returns: it puts its one tuple and the thread ends.
SearchReturn(s, msg) ==
  /\ result_queue' = Append(result_queue, msg)
  /\ search' = [search EXCEPT ![s] = IdleSearcher]

\* A readiness check that lets a search through while building.
ReadyVerdict_IgnoresBuilding(loaded, building) ==
  IF ~loaded /\ ~building THEN "error" ELSE "go"

\* The readiness check: "error" (not ready), "info" (building) or "go".
ReadyVerdict(loaded, building) ==
  IF ~loaded /\ ~building THEN "error"
  ELSE IF building THEN "info"
  ELSE "go"

\* The readiness check under the lock.
SearchCheck(s) ==
  /\ search[s].pc = "start"
  /\ cache_lock = Free
  /\ LET verdict == ReadyVerdict(cache_loaded, cache_building) IN
       CASE verdict = "error" ->
              SearchReturn(s, Msg("error", "Item cache not ready. Please wait or restart.", 0))
         [] verdict = "info" ->
              SearchReturn(s, Msg("info", "Cache is building. Please wait...", 0))
         [] OTHER ->
              /\ search' = [search EXCEPT ![s].pc = "resolve"]
              /\ UNCHANGED result_queue
  /\ UNCHANGED <<display, shared, cache_lock, status_queue, controls, gui_pc, load_pc, build>>

\* A key taken as typed.
LookupKey_AsTyped(item_identifier) == item_identifier

\* item_name_lower = str(item_identifier).lower()
LookupKey(item_identifier) == Lower(item_identifier)

\* 1. Determine Item ID: a numeric identifier is the id; a name is looked
\* up in the global dict, outside the lock.
SearchResolve(s) ==
  /\ search[s].pc = "resolve"
  /\ IF IsDigit(search[s].item_identifier) THEN
       /\ search' = [search EXCEPT ![s].item_id = ToInt(search[s].item_identifier),
                                   ![s].confirmed_name = "Item ID: N",
                                   ![s].pc = "prices"]
       /\ UNCHANGED result_queue
     ELSE
       LET found == find_item_id_by_name(item_id_cache, LookupKey(search[s].item_identifier)) IN
         IF Truthy(found) THEN
           /\ search' = [search EXCEPT ![s].item_id = found,
                                       ![s].confirmed_name = search[s].item_identifier,
                                       ![s].pc = "prices"]
           /\ UNCHANGED result_queue
         ELSE
           SearchReturn(s, Msg("error", "Item not found in cache. Try ID?", 0))
  /\ UNCHANGED <<display, shared, cache_lock, status_queue, controls, gui_pc, load_pc, build>>

\* The error tuples of the except clauses around the commerce requests.
FetchErrors ==
  {"API Error 404: Item ID not found.",
   "API Error 429: Rate limit hit. Wait a moment.",
   "API HTTP Error",
   "API Network Error",
   "Error processing API data for ID.",
   "Unexpected error during API fetch"}

\* The "buys" or "sells" member of a price record is kept as the set of
\* its "unit_price" values: empty when there is none.
\* buy_info.get("unit_price", 0)
UnitPrice(info) == IF info = {} THEN 0 ELSE CHOOSE p \in info : TRUE

\* A test that lets a price of 0 through.
PriceOrNone_KeepsZero(unit_price) == IF unit_price >= 0 THEN unit_price ELSE NoneId

\* highest_buy_copper if highest_buy_copper > 0 else None
PriceOrNone(unit_price) == IF unit_price > 0 THEN unit_price ELSE NoneId

\* The price record the other specifications let the endpoint answer.
DefaultQuotes == {[buys |-> {100}, sells |-> {150}]}

\* The success tuple ("success", api_data) of a search with locals loc:
\* the name, the id asked for, the two prices and the sell quantity.
Success(loc, name) ==
  <<"success", name, loc.item_id, loc.buy_price, loc.sell_price, loc.sell_qty>>

\* The prices request answers: one of the price records quotes, or an empty
\* list.
SearchPricesOf(s, quotes) ==
  /\ search[s].pc = "prices"
  /\ \/ /\ \E q \in quotes :
             search' = [search EXCEPT ![s].pc = "listings",
                                      ![s].buy_info = q.buys,
                                      ![s].sell_info = q.sells,
                                      ![s].buy_price = PriceOrNone(UnitPrice(q.buys)),
                                      ![s].sell_price = PriceOrNone(UnitPrice(q.sells))]
        /\ UNCHANGED result_queue
     \/ SearchReturn(s, Msg("error", "No price data for Item ID.", search[s].item_id))
  /\ UNCHANGED <<display, shared, cache_lock, status_queue, controls, gui_pc, load_pc, build>>

SearchPrices(s) == SearchPricesOf(s, DefaultQuotes)

\* The answer of the listings endpoint: no record at all, or a record with
\* the quantities of its "sells" list, best price first.
\* api_data["sell_qty"]: None, the first quantity, or 0.
SellQty(listing) ==
  IF ~listing.found THEN NoneId
  ELSE IF listing.sells # <<>> THEN listing.sells[1]
  ELSE 0

\* The listings answer the other specifications let the endpoint give.
DefaultListings == {[found |-> TRUE, sells |-> <<5>>]}

\* The listings request answers; a name search is then complete.
SearchListingsOf(s, listings) ==
  /\ search[s].pc = "listings"
  /\ \E l \in listings :
       IF IsDigit(search[s].item_identifier)
         THEN /\ search' = [search EXCEPT ![s].pc = "name", ![s].sell_qty = SellQty(l)]
              /\ UNCHANGED result_queue
         ELSE SearchReturn(s, Success([search[s] EXCEPT !.sell_qty = SellQty(l)],
                                      search[s].confirmed_name))
  /\ UNCHANGED <<display, shared, cache_lock, status_queue, controls, gui_pc, load_pc, build>>

SearchListings(s) == SearchListingsOf(s, DefaultListings)

\* What can go wrong with the prices or the listings request: the HTTP
\* status raise_for_status() raises for, a timeout or a refused connection,
\* a body that is no JSON, and a JSON answer of another shape, by the
\* exception its processing raises (a dict in place of the list or a string
\* as unit_price: KeyError, TypeError; a string in place of the record or
\* null as "buys": AttributeError).
Failures ==
  {"http_404", "http_429", "http_500", "timeout", "connection",
   "invalid_json", "shape_key_type", "shape_attribute"}

\* The texts the except clauses can put for a failure. resp.json() on a body
\* that is no JSON raises requests' JSONDecodeError, a RequestException in
\* requests 2.27 and later and a plain ValueError before.
ExceptClause(failure) ==
  CASE failure = "http_404" -> {"API Error 404: Item ID not found."}
    [] failure = "http_429" -> {"API Error 429: Rate limit hit. Wait a moment."}
    [] failure = "http_500" -> {"API HTTP Error"}
    [] failure \in {"timeout", "connection"} -> {"API Network Error"}
    [] failure = "invalid_json" -> {"API Network Error", "Unexpected error during API fetch"}
    [] failure = "shape_key_type" -> {"Error processing API data for ID."}
    [] OTHER -> {"Unexpected error during API fetch"}

\* The prices or the listings request fails, or its answer cannot be
\* processed: an exception leaves the try block.
SearchFetchError(s) ==
  /\ search[s].pc \in {"prices", "listings"}
  /\ \E f \in Failures :
       search' = [search EXCEPT ![s].pc = "except", ![s].failure = f]
  /\ UNCHANGED <<display, shared, cache_lock, status_queue, result_queue, controls, gui_pc, load_pc, build>>

\* The except clause that matches puts the error tuple.
SearchExcept(s) ==
  /\ search[s].pc = "except"
  /\ \E e \in ExceptClause(search[s].failure) :
       SearchReturn(s, Msg("error", e, search[s].item_id))
  /\ UNCHANGED <<display, shared, cache_lock, status_queue, controls, gui_pc, load_pc, build>>

\* "Add to cache if missing": the test, made outside the lock.
BackfillWanted(cache, fetched_name) ==
  fetched_name # "" /\ Lower(fetched_name) \notin DOMAIN cache

\* A "name" member that is no string (null, a number), as shown to the user.
NoString == "None"

\* The name request of a numeric search: a record with a name, or anything
\* else (no record, no name, any exception), which is swallowed. A record
\* whose "name" is no string is a case of its own: the value is stored as
\* confirmed_name before it is looked at, and then either is falsy (null) or
\* makes .lower() raise, which is swallowed as well.
SearchName(s) ==
  /\ search[s].pc = "name"
  /\ \/ LET fetched_name == RemoteName(search[s].item_id) IN
          IF BackfillWanted(item_id_cache, fetched_name)
            THEN /\ search' = [search EXCEPT ![s].confirmed_name = fetched_name,
                                             ![s].pc = "backfill"]
                 /\ UNCHANGED result_queue
            ELSE SearchReturn(s, Success(search[s], fetched_name))
     \/ SearchReturn(s, Success(search[s], search[s].confirmed_name))
     \/ SearchReturn(s, Success(search[s], NoString))
  /\ UNCHANGED <<display, shared, cache_lock, status_queue, controls, gui_pc, load_pc, build>>

\* The back-fill under the lock:
\* item_id_cache[fetched_name.lower()] = item_id, then the success tuple.
\* A new key resizes the dict, which a json.dump iterating it notices.
SearchInsert(s) ==
  /\ search[s].pc = "backfill"
  /\ cache_lock = Free
  /\ item_id_cache' = DictPut(item_id_cache, Lower(search[s].confirmed_name), search[s].item_id)
  /\ build' = [x \in Builders |->
       IF build[x].dump_state = "live" /\ Lower(search[s].confirmed_name) \notin DOMAIN item_id_cache
         THEN [build[x] EXCEPT !.dump_state = "dirty"]
         ELSE build[x]]
  /\ SearchReturn(s, Success(search[s], search[s].confirmed_name))
  /\ UNCHANGED <<display, cache_loaded, cache_building, cache_lock, cache_file, status_queue, controls, gui_pc, load_pc>>

\* ------------------------------------------------------ OptimalListerApp

\* force_cache_update. Under the lock, cache_building opens the "already in
\* progress" box, which is shown inside the "with cache_lock:" block.
\* Otherwise the lock is released and the yes/no question is asked; on yes
\* the controls are disabled and a thread running
\* build_item_cache(status_queue, True) is started in a free slot of pool
\* (on no nothing changes).
GuiForceCacheUpdate(pool) ==
  /\ gui_pc = "idle"
  /\ cache_lock = Free
  /\ IF cache_building THEN
       /\ gui_pc' = "showinfo"
       /\ cache_lock' = Main
       /\ UNCHANGED <<controls, build>>
     ELSE
       /\ \E b \in pool : build[b].pc = "idle"
       /\ LET b == CHOOSE x \in pool : build[x].pc = "idle" IN
            build' = [build EXCEPT ![b].pc = "start", ![b].force_rebuild = TRUE]
       /\ controls' = FALSE
       /\ UNCHANGED <<gui_pc, cache_lock>>
  /\ UNCHANGED <<display, shared, status_queue, result_queue, load_pc, search>>

\* The user closes the "already in progress" box: the handler returns and
\* leaves the "with" block.
GuiDismissInfo ==
  /\ gui_pc = "showinfo"
  /\ gui_pc' = "idle"
  /\ cache_lock' = Free
  /\ UNCHANGED <<display, shared, status_queue, result_queue, controls, load_pc, build, search>>

\* start_search_thread: the controls are disabled and a thread running
\* fetch_api_data(identifier, result_queue) is started.
GuiStartSearchOf(pool, identifiers) ==
  /\ gui_pc = "idle"
  /\ controls
  /\ ResultRoom
  /\ \E s \in pool : search[s].pc = "idle"
  /\ LET s == CHOOSE x \in pool : search[x].pc = "idle" IN
       \E identifier \in identifiers :
         search' = [search EXCEPT ![s].pc = "start", ![s].item_identifier = identifier]
  /\ controls' = FALSE
  /\ display' = ClearedResults
  /\ UNCHANGED <<shared, cache_lock, status_queue, result_queue, gui_pc, load_pc, build>>

\* start_search_thread with what the user can type.
GuiStartSearch(pool) == GuiStartSearchOf(pool, Identifiers)

\* The state of the controls after process_status_queue has handled a tuple.
StatusControls(msg_type, loaded, building, before) ==
  IF loaded /\ ~building THEN TRUE
  ELSE IF msg_type = "error" /\ ~loaded THEN FALSE
  ELSE before

\* A get that takes the newest tuple.
GetNowait_Newest(q) == [message |-> q[Len(q)], rest |-> SubSeq(q, 1, Len(q) - 1)]

\* queue.get_nowait() on a queue that holds a tuple: the oldest tuple, and
\* the queue without it. On an empty queue it raises queue.Empty at once.
GetNowait(q) == [message |-> Head(q), rest |-> Tail(q)]

\* One tick of process_status_queue: nothing on an empty queue (timers also
\* fire while a dialog is open). With the lock held by the handler that
\* shows the "already in progress" box, the main thread blocks on its own
\* non-reentrant lock for good.
GuiProcessStatus ==
  /\ gui_pc # "hung"
  /\ IF status_queue = <<>> THEN
       UNCHANGED <<status_queue, controls, gui_pc>>
     ELSE
       /\ status_queue' = GetNowait(status_queue).rest
       /\ IF cache_lock = Free THEN
            /\ controls' = StatusControls(GetNowait(status_queue).message[1],
                                          cache_loaded, cache_building, controls)
            /\ UNCHANGED gui_pc
          ELSE
            /\ gui_pc' = "hung"
            /\ UNCHANGED controls
  /\ UNCHANGED <<display, shared, cache_lock, result_queue, load_pc, build, search>>

\* The state of the controls after process_result_queue has handled a
\* success or error tuple.
ResultControls(loaded, building, before) ==
  IF loaded /\ ~building THEN TRUE ELSE before

\* TAX_RATE = 0.85, in hundredths.
TAX_RATE == 85

\* A list price that does not undercut.
SuggestedListPrice_SamePrice(sell_price) == sell_price

\* suggested_list_price = sell_price - 1
SuggestedListPrice(sell_price) == sell_price - 1

\* A test that takes equal prices for a gap.
Undercuttable_OrEqual(sell_price, buy_price) == sell_price >= buy_price

\* A test that is always passed.
Undercuttable_Always(sell_price, buy_price) == TRUE

\* "if sell_price > buy_price:"
Undercuttable(sell_price, buy_price) == sell_price > buy_price

\* The elif chain for a missing price.
NoOrdersText(buy_price, sell_price) ==
  IF sell_price = NoneId THEN "No sell orders found."
  ELSE IF buy_price = NoneId THEN "No buy orders found."
  ELSE "Could not determine prices."

\* int(copper) on a float that is not negative, given in hundredths: the
\* fraction is cut off. (The code's float differs from the exact amount by
\* less than a hundredth, which changes int() only where the exact amount
\* is a whole number of coppers other than 0.)
IntOfHundredths(x) == x \div 100

\* format_gw2_price on a float given in hundredths of a copper: "N/A" for a
\* negative amount, else the gold, silver and copper parts of int(copper)
\* (a part that is 0 is left out of the text, "0c" stands for 0).
format_gw2_price(hundredths) ==
  IF hundredths < 0 THEN <<"N/A", 0, 0, 0>>
  ELSE LET copper == IntOfHundredths(hundredths) IN
         <<"gsc", copper \div 10000, (copper % 10000) \div 100, copper % 100>>

\* display_results(data) on the api_data of a success tuple: clear_results,
\* the name and the two prices, then the suggestion. The profits per item
\* are price * TAX_RATE, compared and subtracted as the code does.
display_results(data) ==
  LET buy_price == data[4]
      sell_price == data[5]
      sell_qty == data[6]
      shown == [ClearedResults EXCEPT !.confirmed_name = data[2],
                                      !.buy_price = buy_price,
                                      !.sell_price = sell_price]
      instant_profit_per == buy_price * TAX_RATE
      suggested_list_price == SuggestedListPrice(sell_price)
      list_profit_per == suggested_list_price * TAX_RATE
  IN
    IF buy_price # NoneId /\ sell_price # NoneId THEN
      IF sell_price <= 0 THEN
        [shown EXCEPT !.profit_info = "Sell price is zero or negative."]
      ELSE IF Undercuttable(sell_price, buy_price) THEN
        IF suggested_list_price <= 0 THEN
          [shown EXCEPT !.profit_info = "Lowest sell price is 1c. Cannot undercut."]
        ELSE IF list_profit_per > instant_profit_per THEN
          [shown EXCEPT
             !.suggested_price = suggested_list_price,
             !.suggested_qty = IF sell_qty # NoneId /\ sell_qty > 0
                                 THEN <<"Up to", sell_qty>> ELSE <<"Up to 1+", 0>>,
             !.profit_info = "Listing could yield more profit/item (after tax) than instant selling.",
             !.profit = list_profit_per - instant_profit_per,
             !.profit_shown = format_gw2_price(list_profit_per - instant_profit_per)]
        ELSE
          [shown EXCEPT
             !.suggested_price = suggested_list_price,
             !.suggested_qty = <<"Consider", 0>>,
             !.profit_info = "Listing yields LESS profit/item than instant selling.",
             !.profit = instant_profit_per - list_profit_per,
             !.profit_shown = format_gw2_price(instant_profit_per - list_profit_per)]
      ELSE
        [shown EXCEPT !.profit_info = "Lowest sell <= highest buy. Instant sell likely optimal."]
    ELSE
      [shown EXCEPT !.profit_info = NoOrdersText(buy_price, sell_price)]

\* One tick of process_result_queue: nothing on an empty queue; a success
\* tuple is displayed before the lock is asked for.
GuiProcessResult ==
  /\ gui_pc # "hung"
  /\ IF result_queue = <<>> THEN
       UNCHANGED <<result_queue, display, controls, gui_pc>>
     ELSE
       LET message == GetNowait(result_queue).message IN
         /\ result_queue' = GetNowait(result_queue).rest
         /\ display' = IF message[1] = "success" THEN display_results(message) ELSE display
         /\ IF message[1] = "info" THEN
              UNCHANGED <<controls, gui_pc>>
            ELSE IF cache_lock = Free THEN
              /\ controls' = ResultControls(cache_loaded, cache_building, controls)
              /\ UNCHANGED gui_pc
            ELSE
              /\ gui_pc' = "hung"
              /\ UNCHANGED controls
  /\ UNCHANGED <<shared, cache_lock, status_queue, load_pc, build, search>>

\* ------------------------------------------------------------ the program

\* The builder's steps.
BuildStep(b) ==
  \/ BuildGuard(b)
  \/ BuildFetchIds(b)
  \/ BuildBatchOk(b)
  \/ BuildBatchError(b)
  \/ BuildSleep(b)
  \/ BuildBatchBadRecord(b)
  \/ BuildNoItems(b)
  \/ BuildSwap(b)
  \/ SaveOpen(b)
  \/ SaveWrite(b)
  \/ BuildFinally(b)

\* The loader, the cache-update handler and the builds it starts, with the
\* status queue drained by the main loop; no search is made.
NextBuild ==
  \/ LoadItemCache
  \/ BuildStep("b1")
  \/ GuiForceCacheUpdate({"b1"})
  \/ GuiDismissInfo
  \/ GuiProcessStatus

SpecBuild == Init /\ [][NextBuild]_vars

\* The builder's steps while the item endpoint answers every batch request.
BuildStepOk(b) ==
  \/ BuildGuard(b)
  \/ BuildFetchIds(b)
  \/ BuildBatchOk(b)
  \/ BuildSwap(b)
  \/ SaveOpen(b)
  \/ SaveWrite(b)
  \/ BuildFinally(b)

\* Two thread slots for builds, the item endpoint answering.
NextRace ==
  \/ LoadItemCache
  \/ \E b \in Builders : BuildStepOk(b)
  \/ GuiForceCacheUpdate(Builders)
  \/ GuiDismissInfo
  \/ GuiProcessStatus

SpecRace == Init /\ [][NextRace]_vars

\* The search worker's steps while the commerce endpoints answer, with
\* quotes and listings as the answers they can give.
SearchStepOf(s, quotes, listings) ==
  \/ SearchCheck(s)
  \/ SearchResolve(s)
  \/ SearchPricesOf(s, quotes)
  \/ SearchListingsOf(s, listings)
  \/ SearchName(s)
  \/ SearchInsert(s)

SearchStep(s) == SearchStepOf(s, DefaultQuotes, DefaultListings)

\* build_item_cache(status_queue) called with the default force_rebuild on a
\* thread of its own. The program itself makes no such call: its one caller
\* passes True.
CallBuildItemCache(pool) ==
  /\ \E b \in pool : build[b].pc = "idle"
  /\ LET b == CHOOSE x \in pool : build[x].pc = "idle" IN
       build' = [build EXCEPT ![b].pc = "start", ![b].force_rebuild = FALSE]
  /\ UNCHANGED <<display, shared, cache_lock, status_queue, result_queue, controls, gui_pc, load_pc, search>>

\* The loader and callers of the unforced build, with the status queue
\* drained by the main loop.
NextApi ==
  \/ LoadItemCache
  \/ \E b \in Builders : BuildStep(b)
  \/ CallBuildItemCache(Builders)
  \/ GuiProcessStatus

SpecApi == Init /\ [][NextApi]_vars

\* The program once the startup loader has returned, the snapshot file
\* being one of files.
InitLoadedFrom(files) ==
  \E file \in files, io_error \in BOOLEAN :
    LET out == LoadOutcome(file, io_error) IN
      /\ item_id_cache = IF out.loaded THEN JsonLoad(file.members) ELSE EmptyDict
      /\ cache_loaded = out.loaded
      /\ cache_building = FALSE
      /\ cache_lock = Free
      /\ cache_file = file
      /\ status_queue = out.msgs
      /\ result_queue = <<>>
      /\ controls = FALSE
      /\ gui_pc = "idle"
      /\ display = ClearedResults
      /\ load_pc = "done"
      /\ build = [b \in Builders |-> IdleBuilder]
      /\ search = [s \in Searchers |-> IdleSearcher]

InitLoaded == InitLoadedFrom(InitialFiles)

\* Builds and searches together after the loader, the item and commerce
\* endpoints answering.
NextLoaded ==
  \/ BuildStepOk("b1")
  \/ \E s \in Searchers : SearchStep(s)
  \/ GuiForceCacheUpdate({"b1"})
  \/ GuiDismissInfo
  \/ GuiStartSearch(Searchers)
  \/ GuiProcessStatus
  \/ GuiProcessResult

SpecLoaded == InitLoaded /\ [][NextLoaded]_vars

\* Snapshot files and identifiers for the name lookup: an id of 0 on file,
\* two spellings of one name, a name no item has, and the id of "Ore".
LookupFiles ==
  {FileAbsent, FileDict(DictPut(EmptyDict, "ore", 0)),
   FileDict(DictPut(EmptyDict, "gem", 2))}

LookupIdentifiers == {"Ore", "ORE", "Axe", "1"}

\* Builds and searches together after the loader, as in NextLoaded, the
\* user typing one of LookupIdentifiers.
NextLookup ==
  \/ BuildStepOk("b1")
  \/ \E s \in Searchers : SearchStep(s)
  \/ GuiForceCacheUpdate({"b1"})
  \/ GuiDismissInfo
  \/ GuiStartSearchOf(Searchers, LookupIdentifiers)
  \/ GuiProcessStatus
  \/ GuiProcessResult

SpecLookup == InitLoadedFrom(LookupFiles) /\ [][NextLookup]_vars

\* The process ends, by exit or by being killed (its worker threads are
\* daemon threads and end with it), and the program is started again: the
\* module globals and the app are as at startup, the file is as it was left.
ProcessRestart ==
  /\ item_id_cache' = EmptyDict
  /\ cache_loaded' = FALSE
  /\ cache_building' = FALSE
  /\ cache_lock' = Free
  /\ status_queue' = <<>>
  /\ result_queue' = <<>>
  /\ controls' = FALSE
  /\ gui_pc' = "idle"
  /\ display' = ClearedResults
  /\ load_pc' = "start"
  /\ build' = [b \in Builders |-> IdleBuilder]
  /\ search' = [s \in Searchers |-> IdleSearcher]
  /\ UNCHANGED cache_file

\* A first run on any snapshot file.
InitStore ==
  /\ item_id_cache = EmptyDict
  /\ cache_loaded = FALSE
  /\ cache_building = FALSE
  /\ cache_lock = Free
  /\ cache_file \in StoreFiles
  /\ status_queue = <<>>
  /\ result_queue = <<>>
  /\ controls = FALSE
  /\ gui_pc = "idle"
  /\ display = ClearedResults
  /\ load_pc = "start"
  /\ build = [b \in Builders |-> IdleBuilder]
  /\ search = [s \in Searchers |-> IdleSearcher]

\* Runs of the program one after another on the same snapshot file: the
\* loader, forced builds with their saves, and the process ending at any
\* point.
NextStore ==
  \/ LoadItemCache
  \/ BuildStep("b1")
  \/ GuiForceCacheUpdate({"b1"})
  \/ GuiDismissInfo
  \/ GuiProcessStatus
  \/ ProcessRestart

SpecStore == InitStore /\ [][NextStore]_vars

\* Searches with every outcome of the commerce requests, beside a build,
\* under the scheduling the program has: a started thread goes on running
\* whenever it can, the two queue timers keep firing, and the user closes
\* an open dialog box at some time.
NextFair ==
  \/ BuildStepOk("b1")
  \/ \E s \in Searchers : SearchStep(s)
  \/ \E s \in Searchers : SearchFetchError(s)
  \/ \E s \in Searchers : SearchExcept(s)
  \/ GuiForceCacheUpdate({"b1"})
  \/ GuiDismissInfo
  \/ GuiStartSearch(Searchers)
  \/ GuiProcessStatus
  \/ GuiProcessResult

Fairness ==
  /\ \A s \in Searchers : WF_vars(SearchStep(s))
  /\ \A s \in Searchers : WF_vars(SearchExcept(s))
  /\ WF_vars(BuildStepOk("b1"))
  /\ WF_vars(GuiDismissInfo)
  /\ WF_vars(GuiProcessStatus)
  /\ WF_vars(GuiProcessResult)

SpecFair ==
  InitLoadedFrom({FileDict(DictPut(EmptyDict, "gem", 2))}) /\ [][NextFair]_vars /\ Fairness

\* The unit prices the prices endpoint can answer with: {} is a record
\* without "unit_price".
BuyInfos == {{}, {0}, {1}, {100}, {200}}
SellInfos == {{}, {0}, {1}, {2}, {150}}
Quotes == {[buys |-> b, sells |-> a] : b \in BuyInfos, a \in SellInfos}

\* What the listings endpoint can answer with: nothing for the id, no sell
\* listings, or sell listings whose first holds 5 items.
Listings ==
  {[found |-> FALSE, sells |-> <<>>], [found |-> TRUE, sells |-> <<>>],
   [found |-> TRUE, sells |-> <<5>>]}

\* Searches over every quote the remote can give, with the cache loaded and
\* no build, and the two queue timers.
NextQuote ==
  \/ \E s \in Searchers : SearchStepOf(s, Quotes, Listings)
  \/ GuiStartSearch(Searchers)
  \/ GuiProcessStatus
  \/ GuiProcessResult

SpecQuote ==
  InitLoadedFrom({FileDict(DictPut(EmptyDict, "gem", 2))}) /\ [][NextQuote]_vars

\* Catalogs whose records collide on the lower-cased name or have no name:
\* ids 1 and 3 in different batches, 3 and 1 around the unnamed 4, 1 and 3
\* next to each other, and the unnamed 4 alone.
MergeCatalogs ==
  {[k \in 1..(API_BATCH_SIZE + 1) |->
      IF k = 1 THEN 1 ELSE IF k = API_BATCH_SIZE + 1 THEN 3 ELSE 2],
   <<3, 4, 1>>, <<1, 3>>, <<4>>}

\* The builder's steps over these catalogs, with attempts that fail.
BuildStepMerge(b) ==
  \/ BuildGuard(b)
  \/ BuildFetchIdsOf(b, MergeCatalogs)
  \/ BuildBatchOk(b)
  \/ BuildBatchError(b)
  \/ BuildSleep(b)
  \/ BuildNoItems(b)
  \/ BuildSwap(b)
  \/ SaveOpen(b)
  \/ SaveWrite(b)
  \/ BuildFinally(b)

NextMerge ==
  \/ LoadItemCache
  \/ BuildStepMerge("b1")
  \/ GuiForceCacheUpdate({"b1"})
  \/ GuiDismissInfo
  \/ GuiProcessStatus

SpecMerge == Init /\ [][NextMerge]_vars

\* The process from its start, with the scheduling the program has: the
\* loader thread of __init__ runs, a started build goes on whenever it can
\* (the item endpoint answering), the status timer keeps firing and an
\* open dialog box is closed at some time. Nothing obliges the user to ask
\* for a cache update.
NextStartup ==
  \/ LoadItemCache
  \/ BuildStepOk("b1")
  \/ GuiForceCacheUpdate({"b1"})
  \/ GuiDismissInfo
  \/ GuiProcessStatus

FairStartup ==
  /\ WF_vars(LoadItemCache)
  /\ WF_vars(BuildStepOk("b1"))
  /\ WF_vars(GuiDismissInfo)
  /\ WF_vars(GuiProcessStatus)

SpecStartup == Init /\ [][NextStartup]_vars /\ FairStartup

\* ----------------------------------------------------------- properties

\* The tuples a step puts on the status queue and on the result queue (no
\* step both puts and gets).
StatusAppended ==
  IF Len(status_queue') > Len(status_queue)
    THEN SubSeq(status_queue', Len(status_queue) + 1, Len(status_queue'))
    ELSE <<>>

ResultAppended ==
  IF Len(result_queue') > Len(result_queue)
    THEN SubSeq(result_queue', Len(result_queue) + 1, Len(result_queue'))
    ELSE <<>>

\* A build execution is in flight: past its guard and not yet through its
\* finally block.
InFlight(b) == build[b].pc \notin {"idle", "start"}

\* C1: at no time are two build executions in flight together, whatever the
\* interleaving of force_cache_update and the build_item_cache workers.
C1_AtMostOneBuildInFlight ==
  Cardinality({b \in Builders : InFlight(b)}) <= 1

\* C2: build_item_cache with force_rebuild false, finding cache_building or
\* cache_loaded set, returns at once: the thread ends without a request, the
\* flags, the entries and the snapshot are unchanged, and the one tuple put is
\* the "in progress" / "already loaded" info tuple.
C2_UnforcedBuildIsNoOp ==
  [][\A b \in Builders :
       (/\ build[b].pc = "start"
        /\ build'[b].pc # "start"
        /\ ~build[b].force_rebuild
        /\ (cache_building \/ cache_loaded))
       => /\ build'[b] = IdleBuilder
          /\ item_id_cache' = item_id_cache
          /\ cache_loaded' = cache_loaded
          /\ cache_building' = cache_building
          /\ cache_file' = cache_file
          /\ StatusAppended =
               <<Msg("info",
                     IF cache_building THEN "Cache build already in progress."
                                       ELSE "Cache already loaded.", 0)>>]_vars

C2_Witness ==
  /\ cache_building
  /\ \E k \in 1..Len(status_queue) :
       status_queue[k] = Msg("info", "Cache build already in progress.", 0)

\* C3: a search whose readiness check finds the cache building or empty (not
\* loaded) puts exactly one not-ready tuple and ends there, while the build
\* goes on: no request is made and no entry is read or written.
C3_NotReadySearchReturnsAtOnce ==
  [][\A s \in Searchers :
       (/\ search[s].pc = "start"
        /\ search'[s].pc # "start"
        /\ (cache_building \/ ~cache_loaded))
       => /\ search'[s] = IdleSearcher
          /\ ResultAppended =
               <<IF cache_building
                   THEN Msg("info", "Cache is building. Please wait...", 0)
                   ELSE Msg("error", "Item cache not ready. Please wait or restart.", 0)>>
          /\ item_id_cache' = item_id_cache
          /\ cache_building' = cache_building
          /\ cache_loaded' = cache_loaded]_vars

C3_Witness ==
  /\ cache_building
  /\ result_queue = <<Msg("info", "Cache is building. Please wait...", 0)>>
  /\ search["s1"].pc = "idle"

\* The mapping a build over catalog ids yields when exactly the batches in
\* batches were merged: each name of a record of those batches, lower-cased,
\* with the id of the last such record in catalog order.
ExpectedMapping(ids, batches) ==
  LET K == {k \in 1..Len(ids) :
              /\ ((k - 1) \div API_BATCH_SIZE) \in batches
              /\ RemoteName(ids[k]) # ""}
      last(n) == CHOOSE k \in K :
                   /\ Lower(RemoteName(ids[k])) = n
                   /\ \A j \in K : Lower(RemoteName(ids[j])) = n => j <= k
  IN [n \in {Lower(RemoteName(ids[k])) : k \in K} |-> ids[last(n)]]

AllBatches(ids) == 0..(NumBatches(Len(ids)) - 1)

\* The mappings a lookup may be answered from as a whole: that of a snapshot
\* found at startup, that of a finished build over a whole catalog, and the
\* entry a back-fill adds.
WholeMappings ==
  {JsonLoad(f.members) : f \in InitialFiles}
    \cup {ExpectedMapping(c, AllBatches(c)) : c \in Catalogs}
    \cup {DictPut(EmptyDict, Lower(RemoteName(ToInt(x))), ToInt(x)) :
            x \in {y \in Identifiers : IsDigit(y)}}

\* A name search takes its lookup step.
LookupStep(s) ==
  /\ search[s].pc = "resolve"
  /\ search'[s].pc # "resolve"
  /\ ~IsDigit(search[s].item_identifier)

\* What the lookup of that step returned to the search.
LookupResult(s) ==
  IF search'[s].pc = "prices" THEN search'[s].item_id ELSE NoneId

\* C4: while a build fills its temporary mapping the live mapping is left
\* alone; the swap binds the finished temporary mapping at once; and each
\* name lookup returns what the live mapping of that moment holds, which is
\* None or the id a whole mapping gives the name, never an id that only a
\* half-filled mapping holds.
C4_LookupSeesWholeMapping ==
  [][/\ \A b \in Builders :
          /\ (build[b].pc \in {"fetch_ids", "batch", "sleep"} /\ build'[b] # build[b])
               => item_id_cache' = item_id_cache
          /\ (build[b].pc = "complete" /\ build'[b].pc = "save")
               => /\ item_id_cache' = build[b].temp_cache
                  /\ build[b].fetched \cup build[b].skipped = AllBatches(build[b].tp_item_ids)
     /\ \A s \in Searchers :
          LookupStep(s) =>
            /\ LookupResult(s) \in
                 {find_item_id_by_name(item_id_cache, Lower(search[s].item_identifier)), NoneId}
            /\ \/ LookupResult(s) = NoneId
               \/ \E m \in WholeMappings :
                    find_item_id_by_name(m, Lower(search[s].item_identifier)) = LookupResult(s)]_vars

C4_Witness ==
  /\ search["s1"].pc = "prices"
  /\ search["s1"].item_identifier = "Ore"
  /\ search["s1"].item_id = 3
  /\ build["b1"].pc \in {"save", "dump"}
  /\ "ore" \notin DOMAIN build["b1"].prior_cache

\* C5: a name lookup and a back-fill membership test read the entries only
\* inside the lock region, so never while the cache is building and never
\* while another thread holds the lock.
C5_EntriesReadUnderLock ==
  [][\A s \in Searchers :
       (\/ LookupStep(s)
        \/ (search[s].pc = "name" /\ search'[s].pc # "name"))
       => /\ ~cache_building
          /\ cache_lock = Free]_vars

\* Every entry of mapping old is in mapping new.
Keeps(old, new) == \A k \in DOMAIN old : k \in DOMAIN new /\ new[k] = old[k]

\* C6: when a build execution ends without success, every entry the live
\* mapping held as the build began is still there, the snapshot is what it
\* was, and a non-empty prior mapping is usable again (cache_loaded true,
\* cache_building false).
C6_FailedBuildKeepsCache ==
  [][\A b \in Builders :
       (build[b].pc = "finally" /\ build'[b].pc = "idle" /\ ~build[b].success)
       => /\ Keeps(build[b].prior_cache, item_id_cache')
          /\ cache_file' = build[b].prior_file
          /\ (build[b].prior_cache # EmptyDict => cache_loaded' /\ ~cache_building')]_vars

\* C7: the swap of a build makes the live mapping exactly the temporary
\* mapping of that build, success is set only after the swap, and the
\* finally block of a successful build leaves cache_loaded true and
\* cache_building false.
C7_SuccessReplacesEntries ==
  [][\A b \in Builders :
       /\ (build[b].pc = "complete" /\ build'[b].pc = "save")
            => item_id_cache' = build[b].temp_cache
       /\ (build'[b].success /\ ~build[b].success)
            => build[b].pc \in {"save", "dump"}
       /\ (build[b].pc = "finally" /\ build'[b].pc = "idle" /\ build[b].success)
            => cache_loaded' /\ ~cache_building']_vars

C7_Witness ==
  /\ build["b1"].pc = "finally"
  /\ build["b1"].success
  /\ "gem" \in DOMAIN build["b1"].prior_cache
  /\ "gem" \notin DOMAIN item_id_cache
  /\ item_id_cache = build["b1"].temp_cache

\* The warning tuple that names batch i (0-based).
SkipWarning(i) == Msg("info", "Error fetching batch. Some items missing.", i + 1)

\* How often tuple m is among the tuples in seq.
Count(seq, m) == Cardinality({k \in 1..Len(seq) : seq[k] = m})

\* C8: with some batches given up and a named record from another, the
\* mapping at the end of the loop is exactly the merge of the batches that
\* succeeded, the build goes on to swap it in and to report success, and one
\* warning naming the batch is put for each batch given up, and no other.
C8_SkippedBatchesStillSucceed ==
  [][/\ \A b \in Builders :
          /\ build[b].pc = "complete"
               => build[b].temp_cache = ExpectedMapping(build[b].tp_item_ids, build[b].fetched)
          /\ (build[b].pc = "complete" /\ build[b].temp_cache # EmptyDict /\ build'[b].pc # "complete")
               => /\ build'[b].pc = "save"
                  /\ item_id_cache' = build[b].temp_cache
          /\ (build[b].pc \in {"save", "dump"} /\ build'[b].pc \notin {"save", "dump"})
               => /\ build'[b].pc = "finally"
                  /\ build'[b].success
                  /\ StatusAppended = <<Msg("success", "Item cache built and saved. Ready.", 0)>>
     /\ \A i \in 0..MaxCatalog :
          Count(StatusAppended, SkipWarning(i)) =
            Cardinality({b \in Builders : i \in build'[b].skipped \ build[b].skipped})]_vars

C8_Witness ==
  /\ build["b1"].pc = "finally"
  /\ build["b1"].success
  /\ build["b1"].skipped = {0}
  /\ build["b1"].fetched = {1}
  /\ item_id_cache = DictPut(EmptyDict, "ore", 3)

\* C9: a batch is requested at most 3 times; the attempt count goes up only
\* by one, for the same batch, at the end of the sleep that follows a failed
\* attempt; a merged batch is not requested again; and it is the third
\* failure, and only that, that gives the batch up, the build going on with
\* the next batch or the code after the loop.
C9_AtMostThreeAttempts ==
  [][\A b \in Builders :
       /\ build[b].pc \in {"batch", "sleep"} => build[b].attempt + 1 <= 3
       /\ build'[b].attempt > build[b].attempt
            => /\ build[b].pc = "sleep"
               /\ build'[b].pc = "batch"
               /\ build'[b].attempt = build[b].attempt + 1
               /\ build'[b].i = build[b].i
       /\ (build'[b].pc = "sleep" /\ build[b].pc # "sleep")
            => /\ build[b].pc = "batch"
               /\ build[b].attempt < 2
               /\ build'[b].temp_cache = build[b].temp_cache
               /\ build'[b].fetched = build[b].fetched
       /\ (build[b].pc = "batch" /\ build'[b].fetched # build[b].fetched)
            => \/ build'[b].pc = "complete"
               \/ /\ build'[b].pc = "batch"
                  /\ build'[b].i = build[b].i + 1
                  /\ build'[b].attempt = 0
       /\ (build[b].pc = "batch" /\ build'[b].skipped # build[b].skipped)
            => /\ build[b].attempt = 2
               /\ build'[b].skipped = build[b].skipped \cup {build[b].i}
               /\ \/ build'[b].pc = "complete"
                  \/ /\ build'[b].pc = "batch"
                     /\ build'[b].i = build[b].i + 1
                     /\ build'[b].attempt = 0]_vars

C9_Witness ==
  /\ build["b1"].pc = "batch"
  /\ build["b1"].i = 1
  /\ build["b1"].attempt = 2
  /\ build["b1"].skipped = {0}

\* C10: a build whose temporary mapping is empty after the loop puts the
\* no-items error and goes to its finally block without a swap and without a
\* snapshot write; its finally block, finding no entries, leaves cache_loaded
\* and cache_building false and puts an error tuple.
C10_NoItemsEndsEmpty ==
  [][\A b \in Builders :
       /\ (build[b].pc = "complete" /\ build[b].temp_cache = EmptyDict /\ build'[b].pc # "complete")
            => /\ build'[b].pc = "finally"
               /\ ~build'[b].success
               /\ StatusAppended = <<Msg("error", "Failed to build item cache (no items).", 0)>>
               /\ item_id_cache' = item_id_cache
               /\ cache_file' = cache_file
       /\ (build[b].pc = "finally" /\ build'[b].pc = "idle" /\ ~build[b].success)
            => /\ item_id_cache' = item_id_cache
               /\ cache_file' = cache_file
               /\ ~cache_building'
               /\ item_id_cache = EmptyDict
                    => /\ ~cache_loaded'
                       /\ StatusAppended =
                            <<Msg("error", "Cache build failed. Try again or use Item IDs.", 0)>>]_vars

C10_Witness ==
  /\ status_queue = <<Msg("error", "Failed to build item cache (no items).", 0),
                      Msg("error", "Cache build failed. Try again or use Item IDs.", 0)>>
  /\ item_id_cache = EmptyDict
  /\ ~cache_loaded
  /\ ~cache_building
  /\ build["b1"].pc = "idle"

\* C11: an empty list of tradeable ids ends the build with the empty-catalog
\* error, which is not the no-items error: the step that receives the list
\* goes to the finally block with entries, flags and snapshot untouched, and
\* no build requests a batch, swaps or saves with an empty list of ids.
C11_EmptyCatalogFailsBuild ==
  [][\A b \in Builders :
       /\ build[b].pc \in {"batch", "sleep", "complete", "save", "dump"}
            => build[b].tp_item_ids # <<>>
       /\ (build[b].pc = "fetch_ids" /\ build'[b].pc # "fetch_ids")
            => \/ /\ build'[b].pc = "batch"
                  /\ build'[b].tp_item_ids # <<>>
               \/ /\ build'[b].pc = "finally"
                  /\ ~build'[b].success
                  /\ build'[b].tp_item_ids = <<>>
                  /\ Len(StatusAppended) = 2
                  /\ StatusAppended[2] \in
                       {Msg("error", "Cache Build Error: API returned empty list of tradable items.", 0),
                        Msg("error", "API Error building cache", 0)}
                  /\ StatusAppended[2] # Msg("error", "Failed to build item cache (no items).", 0)
                  /\ item_id_cache' = item_id_cache
                  /\ cache_file' = cache_file
                  /\ cache_loaded' = cache_loaded
                  /\ cache_building' = cache_building]_vars

C11_Witness ==
  /\ build["b1"].pc = "finally"
  /\ build["b1"].tp_item_ids = <<>>
  /\ status_queue # <<>>
  /\ status_queue[Len(status_queue)] =
       Msg("error", "Cache Build Error: API returned empty list of tradable items.", 0)


\* C12 as stated: on a successful build the snapshot is persisted first and
\* the new mapping swapped in afterwards, so whenever a build has swapped its
\* mapping in, the snapshot file already holds that mapping.
C12_PersistBeforeSwap ==
  \A b \in Builders :
    (build[b].pc \in {"save", "dump"} /\ item_id_cache = build[b].temp_cache)
      => cache_file = FileDict(build[b].temp_cache)

\* C12 as amended: the swap comes first and the save afterwards. The step
\* that leaves the loop with a non-empty temp_cache makes the live dict the
\* newly built mapping and leaves the file alone; the file changes only in a
\* step of a builder that has swapped and is inside save_item_cache.
C12_SwapBeforePersist ==
  [][/\ \A b \in Builders :
          (build[b].pc = "complete" /\ build'[b].pc # "complete"
             /\ build[b].temp_cache # EmptyDict)
            => /\ build'[b].pc = "save"
               /\ item_id_cache' = build[b].temp_cache
               /\ cache_file' = cache_file
     /\ cache_file' # cache_file
          => \E b \in Builders :
               /\ build[b].pc \in {"save", "dump"}
               /\ build'[b].pc # build[b].pc]_vars

\* A build has swapped its mapping in and the file does not hold it yet.
C12_Witness ==
  /\ build["b1"].pc = "save"
  /\ build["b1"].temp_cache # EmptyDict
  /\ item_id_cache = build["b1"].temp_cache
  /\ cache_file # FileDict(build["b1"].temp_cache)


\* C13: whenever a build reports success ("Item cache built and saved.
\* Ready."), the snapshot file holds exactly the mapping this build produced
\* and swapped in, whatever the searches did meanwhile and however the file
\* write ended.
C13_SuccessMeansSaved ==
  [][\A b \in Builders :
       (/\ build[b].pc \in {"save", "dump"}
        /\ build'[b].pc = "finally"
        /\ build'[b].success
        /\ StatusAppended = <<Msg("success", "Item cache built and saved. Ready.", 0)>>)
         => cache_file' = FileDict(build[b].temp_cache)]_vars


\* C14: the snapshot file never has two concurrent writers: at most one
\* build worker is inside save_item_cache (the file open, json.dump under
\* way) at any time.
C14_OneSnapshotWriter ==
  Cardinality({b \in Builders : build[b].pc = "dump"}) <= 1


\* The name -> id mappings of the model: some of the names, any of the ids.
Mappings == UNION {[K -> {0, 1, 2, 3, 9}] : K \in SUBSET {"ore", "gem", "axe"}}

C16_LoadOnlyNameToInteger ==
  [][(/\ load_pc = "start"
      /\ load_pc' = "done"
      /\ ~cache_loaded
      /\ item_id_cache = EmptyDict)
       => LET valid == /\ cache_file.kind = "dict"
                       /\ \A m \in cache_file.members : m[2] # NotInt
          IN  /\ cache_loaded' => valid
              /\ ~valid => (~cache_loaded' /\ item_id_cache' = EmptyDict)]_vars


\* C17: when the process ends while a build is inside save_item_cache, the
\* snapshot file afterwards holds the complete previous snapshot (the file
\* as that build found it) or the complete new one (the dict being dumped),
\* never a truncated or partly written file.
C17_CrashKeepsWholeSnapshot ==
  [][\A b \in Builders :
       (/\ build[b].pc = "dump"
        /\ load_pc' = "start"
        /\ build'[b].pc = "idle")
         => \/ cache_file' = build[b].prior_file
            \/ cache_file' = FileDict(build[b].dump_view)]_vars


\* The step of a search that resolves a name (a non-numeric identifier).
NameResolveStep(s) ==
  /\ search[s].pc = "resolve"
  /\ search'[s].pc # "resolve"
  /\ ~IsDigit(search[s].item_identifier)

\* C18: with the cache loaded, a name resolves to the id stored under its
\* lower-case form exactly when that key is in the dict, whatever
\* non-negative id is stored there, and the search goes on to the commerce
\* requests with it; when the key is not there the search puts the
\* not-found error and ends without a request. Only the exact key counts.
C18_NameResolvesIffKeyPresent ==
  [][\A s \in Searchers :
       NameResolveStep(s)
         => LET key == Lower(search[s].item_identifier) IN
              IF key \in DOMAIN item_id_cache /\ item_id_cache[key] >= 0
                THEN /\ search'[s].pc = "prices"
                     /\ search'[s].item_id = item_id_cache[key]
                     /\ ResultAppended = <<>>
                ELSE /\ search'[s].pc = "idle"
                     /\ ResultAppended = <<Msg("error", "Item not found in cache. Try ID?", 0)>>]_vars


\* C19: name resolution is case-insensitive. When the dict holds the
\* lower-case key k, every identifier whose lower-case form is k gets the
\* outcome that k and the dict fix, whatever its spelling: the id stored
\* under k (or, for a stored 0, the not-found error for every spelling). So
\* two identifiers that differ only in case resolve to the same id.
C19_CaseInsensitive ==
  [][\A s \in Searchers :
       NameResolveStep(s)
         => \A k \in DOMAIN item_id_cache :
              Lower(search[s].item_identifier) = k
                => IF item_id_cache[k] # 0
                     THEN /\ search'[s].pc = "prices"
                          /\ search'[s].item_id = item_id_cache[k]
                     ELSE search'[s].pc = "idle"]_vars

\* A search for "ORE" has resolved to the id stored under "ore".
C19_Witness ==
  /\ search["s1"].pc = "prices"
  /\ search["s1"].item_identifier = "ORE"
  /\ "ore" \in DOMAIN item_id_cache
  /\ search["s1"].item_id = item_id_cache["ore"]


\* C20: the back-fill inserts lower(name) -> id only if that key is absent
\* at the moment of the insertion: it never replaces an id already stored
\* under the key by another one, and it changes no other entry.
C20_BackfillNeverOverwrites ==
  [][\A s \in Searchers :
       (search[s].pc = "backfill" /\ search'[s].pc # "backfill")
         => /\ \A k \in DOMAIN item_id_cache :
                 k \in DOMAIN item_id_cache' /\ item_id_cache'[k] = item_id_cache[k]
            /\ DOMAIN item_id_cache' \subseteq
                 (DOMAIN item_id_cache) \cup {Lower(search[s].confirmed_name)}]_vars


\* A step of the fetch_api_data thread s itself.
SearchWorkerStep(s) == search[s].pc # "idle" /\ search'[s] # search[s]

C22_SearchTerminates ==
  \A s \in Searchers : (search[s].pc = "start") ~> (search[s].pc = "idle")


\* The error kind a result text stands for.
ErrorKind(text) ==
  CASE text = "API Error 404: Item ID not found." -> "NotFound"
    [] text = "API Error 429: Rate limit hit. Wait a moment." -> "RateLimited"
    [] text \in {"API HTTP Error", "API Network Error"} -> "NetworkError"
    [] text \in {"Error processing API data for ID.",
                 "Unexpected error during API fetch"} -> "MalformedResponse"
    [] OTHER -> "Other"

\* C23: a search whose prices or listings request fails puts one error
\* tuple and no success, and the kind of the error is fixed by the failure:
\* NotFound for HTTP 404, RateLimited for HTTP 429, NetworkError for any
\* other transport failure or timeout, MalformedResponse for an answer that
\* is not of the expected form.
C23_ErrorKindFollowsFailure ==
  [][\A s \in Searchers :
       (search[s].pc = "except" /\ search'[s].pc # "except")
         => LET f == search[s].failure
                expected ==
                  CASE f = "http_404" -> "NotFound"
                    [] f = "http_429" -> "RateLimited"
                    [] f \in {"http_500", "timeout", "connection"} -> "NetworkError"
                    [] OTHER -> "MalformedResponse"
            IN  /\ Len(ResultAppended) = 1
                /\ ResultAppended[1][1] = "error"
                /\ ErrorKind(ResultAppended[1][2]) = expected]_vars


\* C24: for a numeric identifier whose prices and listings were read, the
\* search ends in a success tuple whatever the name request does; unless the
\* request gave the item's name, the name in the tuple is the label
\* "Item ID: N" and the dict is left as it was.
C24_NameFailureFallsBack ==
  [][\A s \in Searchers :
       (search[s].pc = "name" /\ search'[s].pc # "name")
         => \/ /\ search'[s].pc = "backfill"
               /\ search'[s].confirmed_name = RemoteName(search[s].item_id)
               /\ item_id_cache' = item_id_cache
            \/ /\ search'[s].pc = "idle"
               /\ item_id_cache' = item_id_cache
               /\ \E name \in {RemoteName(search[s].item_id), "Item ID: N"} :
                    ResultAppended = <<Success(search[s], name)>>]_vars

\* C25: in every successful quote the best bid and the best ask are each
\* absent or at least 1: a unit price of 0, or a record without a unit
\* price, is reported as absent, and a positive unit price as itself.
C25_PricesAbsentOrPositive ==
  [][\A s \in Searchers :
       (search[s].pc # "idle" /\ ResultAppended # <<>> /\ ResultAppended[1][1] = "success")
         => LET quote == ResultAppended[1]
                bid == UnitPrice(search[s].buy_info)
                ask == UnitPrice(search[s].sell_info)
            IN /\ quote[4] = (IF bid >= 1 THEN bid ELSE NoneId)
               /\ quote[5] = (IF ask >= 1 THEN ask ELSE NoneId)
               /\ quote[4] = NoneId \/ quote[4] >= 1
               /\ quote[5] = NoneId \/ quote[5] >= 1]_vars

\* A search has read a bid of 0 and a record without an ask price, and
\* holds both prices as absent.
C25_Witness ==
  \E s \in Searchers :
    /\ search[s].pc = "name"
    /\ search[s].buy_info = {0}
    /\ search[s].sell_info = {}
    /\ search[s].buy_price = NoneId
    /\ search[s].sell_price = NoneId

\* The outcome a profit text stands for.
Verdict(profit_info) ==
  CASE profit_info = "Listing could yield more profit/item (after tax) than instant selling."
         -> "ListingBetter"
    [] profit_info = "Listing yields LESS profit/item than instant selling."
         -> "InstantSellBetter"
    [] profit_info = "Lowest sell <= highest buy. Instant sell likely optimal."
         -> "InstantSellOptimal"
    [] profit_info = "Lowest sell price is 1c. Cannot undercut."
         -> "CannotUndercut"
    [] profit_info = "Sell price is zero or negative."
         -> "DegenerateAsk"
    [] profit_info \in {"No sell orders found.", "No buy orders found.",
                        "Could not determine prices."}
         -> "InsufficientData"
    [] OTHER -> "None"

\* A tick of process_result_queue that takes a success tuple, and the two
\* prices of that tuple.
ShowsQuote ==
  /\ result_queue # <<>>
  /\ result_queue' = Tail(result_queue)
  /\ Head(result_queue)[1] = "success"
QuotedBid == Head(result_queue)[4]
QuotedAsk == Head(result_queue)[5]

\* C26: for a quote with both prices present, ask > bid and ask - 1 > 0,
\* the suggested list price is ask - 1; the outcome is ListingBetter with
\* the gain (ask - 1) * tax - bid * tax exactly when the first product is
\* the larger, and InstantSellBetter with the opposite difference
\* otherwise (products in hundredths of a copper).
C26_UndercutByOne ==
  [][(/\ ShowsQuote
      /\ QuotedBid # NoneId /\ QuotedAsk # NoneId
      /\ QuotedAsk > QuotedBid /\ QuotedAsk - 1 > 0)
       => LET listPrice == QuotedAsk - 1 IN
          /\ display'.suggested_price = listPrice
          /\ IF listPrice * TAX_RATE > QuotedBid * TAX_RATE
               THEN /\ Verdict(display'.profit_info) = "ListingBetter"
                    /\ display'.profit = listPrice * TAX_RATE - QuotedBid * TAX_RATE
               ELSE /\ Verdict(display'.profit_info) = "InstantSellBetter"
                    /\ display'.profit = QuotedBid * TAX_RATE - listPrice * TAX_RATE]_vars

\* The quote bid 100, ask 150 with 5 items in the first sell listing is
\* shown: list at 149 for up to 5 items, a gain of 41.65 per item.
C26_Witness ==
  /\ display.buy_price = 100
  /\ display.sell_price = 150
  /\ display.suggested_price = 149
  /\ display.suggested_qty = <<"Up to", 5>>
  /\ Verdict(display.profit_info) = "ListingBetter"
  /\ display.profit = 4165

\* C27 as stated: whenever both prices are present and ask - 1 <= 0, the
\* outcome is CannotUndercut with no suggested price.
C27_CannotUndercutAtOne ==
  [][(ShowsQuote /\ QuotedBid # NoneId /\ QuotedAsk # NoneId /\ QuotedAsk - 1 <= 0)
       => /\ Verdict(display'.profit_info) = "CannotUndercut"
          /\ display'.suggested_price = NoneId]_vars

\* C27: whenever both prices are present and ask - 1 <= 0, the bid is at
\* least the ask and the outcome is InstantSellOptimal, with no suggested
\* price and no suggested quantity; no quote is shown as CannotUndercut.
C27_InstantSellAtOne ==
  [][ShowsQuote
       => /\ (QuotedBid # NoneId /\ QuotedAsk # NoneId /\ QuotedAsk - 1 <= 0)
               => /\ QuotedAsk <= QuotedBid
                  /\ Verdict(display'.profit_info) = "InstantSellOptimal"
                  /\ display'.suggested_price = NoneId
                  /\ display'.suggested_qty = <<"N/A", 0>>
          /\ Verdict(display'.profit_info) # "CannotUndercut"]_vars

\* The quote bid 100, ask 1 is shown as an instant sale, without a list
\* price.
C27_Witness ==
  /\ display.buy_price = 100
  /\ display.sell_price = 1
  /\ Verdict(display.profit_info) = "InstantSellOptimal"
  /\ display.suggested_price = NoneId

\* C28: whenever both prices are present and 0 < ask <= bid, the outcome
\* is InstantSellOptimal, and neither a list price nor a list quantity is
\* suggested.
C28_CrossedMarketSellsInstantly ==
  [][(/\ ShowsQuote
      /\ QuotedBid # NoneId /\ QuotedAsk # NoneId
      /\ 0 < QuotedAsk /\ QuotedAsk <= QuotedBid)
       => /\ Verdict(display'.profit_info) = "InstantSellOptimal"
          /\ display'.suggested_price = NoneId
          /\ display'.suggested_qty = <<"N/A", 0>>
          /\ display'.buy_price = QuotedBid
          /\ display'.sell_price = QuotedAsk]_vars

\* The quote bid 200, ask 150 is shown as an instant sale, with nothing
\* suggested.
C28_Witness ==
  /\ display.buy_price = 200
  /\ display.sell_price = 150
  /\ Verdict(display.profit_info) = "InstantSellOptimal"
  /\ display.suggested_price = NoneId
  /\ display.suggested_qty = <<"N/A", 0>>

\* C29: when a price is absent nothing is suggested, the outcome is
\* InsufficientData, and its result tells three cases apart: only the ask
\* absent, only the bid absent, and both absent (a result that is neither
\* of the other two).
C29_ThreeKindsOfInsufficientData ==
  [][(ShowsQuote /\ (QuotedBid = NoneId \/ QuotedAsk = NoneId))
       => /\ display'.suggested_price = NoneId
          /\ display'.suggested_qty = <<"N/A", 0>>
          /\ Verdict(display'.profit_info) = "InsufficientData"
          /\ (QuotedBid # NoneId /\ QuotedAsk = NoneId)
               => display'.profit_info = "No sell orders found."
          /\ (QuotedBid = NoneId /\ QuotedAsk # NoneId)
               => display'.profit_info = "No buy orders found."
          /\ (QuotedBid = NoneId /\ QuotedAsk = NoneId)
               => display'.profit_info
                    \notin {"No sell orders found.", "No buy orders found."}]_vars

\* What a step does to a queue: it takes the oldest tuple, or it puts
\* tuples behind the ones that wait.
Taken(q, after) == q # <<>> /\ after = Tail(q)
Put(q, after) == Len(after) > Len(q) /\ SubSeq(after, 1, Len(q)) = q

C31_FailedLoadStartsBuild ==
  (load_pc = "done" /\ ~cache_loaded /\ ~cache_building)
    ~> (cache_building \/ cache_loaded)

\* The batches 0 .. n-1 of ids, one after another.
RECURSIVE ConcatBatches(_, _)
ConcatBatches(ids, n) ==
  IF n = 0 THEN <<>> ELSE ConcatBatches(ids, n - 1) \o BatchIds(ids, n - 1)

\* C32: while a build is in its batch loop, the batches are consecutive
\* slices of the catalog of 1 to API_BATCH_SIZE ids which, put one after
\* another, are the catalog itself (every id once, in order, in
\* ceil(n / API_BATCH_SIZE) batches); and batch i is being requested only
\* when each of the batches 0 .. i-1 has been merged or skipped, none both.
C32_BatchesInOrder ==
  \A b \in Builders :
    build[b].pc \in {"batch", "sleep"}
      => LET ids == build[b].tp_item_ids
             n == NumBatches(Len(ids))
         IN /\ n * API_BATCH_SIZE >= Len(ids)
            /\ (n - 1) * API_BATCH_SIZE < Len(ids)
            /\ ConcatBatches(ids, n) = ids
            /\ \A i \in 0..(n - 1) : Len(BatchIds(ids, i)) \in 1..API_BATCH_SIZE
            /\ build[b].i \in 0..(n - 1)
            /\ build[b].fetched \cup build[b].skipped = 0..(build[b].i - 1)
            /\ build[b].fetched \cap build[b].skipped = {}

\* The second batch is being requested after the first was given up.
C32_Witness ==
  \E b \in Builders :
    /\ build[b].pc = "batch"
    /\ build[b].i = 1
    /\ build[b].skipped = {0}
    /\ Len(build[b].tp_item_ids) > API_BATCH_SIZE

\* The positions of ids whose record has been merged when the loop has
\* ended: those of the batches that succeeded.
MergedPositions(b) ==
  {k \in 1..Len(build[b].tp_item_ids) : ((k - 1) \div API_BATCH_SIZE) \in build[b].fetched}

\* C33: when the batch loop has ended, the built mapping has one entry for
\* each lower-cased non-empty name among the merged records and no other
\* (none for a record without a name), and the entry of a name holds the
\* id of the last merged record of that name, in catalog order.
C33_LastRecordOfNameWins ==
  \A b \in Builders :
    build[b].pc = "complete"
      => LET ids == build[b].tp_item_ids
             named == {k \in MergedPositions(b) : RemoteName(ids[k]) # ""}
             key(k) == Lower(RemoteName(ids[k]))
         IN /\ DOMAIN build[b].temp_cache = {key(k) : k \in named}
            /\ \A k \in named :
                 (\A j \in named : key(j) = key(k) => j <= k)
                   => build[b].temp_cache[key(k)] = ids[k]

\* The catalog 3, 4, 1 has been merged whole: "ore" holds 1, the id of the
\* later record, and the unnamed 4 has no entry.
C33_Witness ==
  /\ build["b1"].pc = "complete"
  /\ build["b1"].tp_item_ids = <<3, 4, 1>>
  /\ MergedPositions("b1") = {1, 2, 3}
  /\ build["b1"].temp_cache = DictPut(EmptyDict, "ore", 1)

\* C34: a search is never kept waiting for cache_lock longer than a short
\* critical section of another thread: a search thread that is at its
\* readiness check gets past it.
C34_ReadinessCheckNotHeldUp ==
  \A s \in Searchers : (search[s].pc = "start") ~> (search[s].pc # "start")

\* C35: every build that has passed the guard comes to its end, with
\* cache_building false when it has ended; in particular a build that has
\* reached its finally block leaves it, and cache_building is false then.
C35_BuildTerminates ==
  \A b \in Builders :
    (build[b].pc = "finally") ~> (build[b].pc = "idle" /\ ~cache_building)

\* |x|
Abs(x) == IF x < 0 THEN -x ELSE x

\* C36: whenever a list price is shown, the difference of the proceeds per
\* item shown with it is |listPrice - bid| * 0.85 rounded to the nearest
\* copper (41.65 is shown as 42c).
C36_DifferenceRoundedToNearest ==
  [][(ShowsQuote /\ display'.suggested_price # NoneId)
       => LET exact == Abs(display'.suggested_price - QuotedBid) * TAX_RATE
              nearest == (exact + 50) \div 100
          IN display'.profit_shown =
               <<"gsc", nearest \div 10000, (nearest % 10000) \div 100, nearest % 100>>]_vars

\* C37: cache_loaded and cache_building are never both true.
C37_LoadedAndBuildingExclude ==
  ~(cache_loaded /\ cache_building)

\* No thread is at work, no dialog is open and both queues are empty.
Quiescent ==
  /\ load_pc = "done"
  /\ \A b \in Builders : build[b].pc = "idle"
  /\ \A s \in Searchers : search[s].pc = "idle"
  /\ gui_pc = "idle"
  /\ status_queue = <<>>
  /\ result_queue = <<>>

\* C38: in every quiescent state with a usable index (cache_loaded true,
\* cache_building false) the search controls are enabled.
C38_ReadyMeansControlsEnabled ==
  (Quiescent /\ cache_loaded /\ ~cache_building) => controls

\* C39: for every quote a search delivers, the outcome shown is never
\* DegenerateAsk nor CannotUndercut; a list price shown is at least 1 and
\* at least the bid; the outcome is ListingBetter exactly when both prices
\* are present and ask >= bid + 2; and InstantSellBetter is shown only for
\* ask = bid + 1, with a difference of 0.
C39_AdvisorOnFetchedQuotes ==
  [][ShowsQuote
       => LET outcome == Verdict(display'.profit_info) IN
          /\ outcome \notin {"DegenerateAsk", "CannotUndercut"}
          /\ display'.suggested_price # NoneId
               => /\ display'.suggested_price >= 1
                  /\ display'.suggested_price >= QuotedBid
          /\ outcome = "ListingBetter"
               <=> (QuotedBid # NoneId /\ QuotedAsk # NoneId /\ QuotedAsk >= QuotedBid + 2)
          /\ outcome = "InstantSellBetter"
               => /\ QuotedBid # NoneId
                  /\ QuotedAsk = QuotedBid + 1
                  /\ display'.profit = 0]_vars

\* The quote bid 1, ask 2 is shown: list at 1, no better and no worse than
\* the instant sale.
C39_Witness ==
  /\ display.buy_price = 1
  /\ display.sell_price = 2
  /\ display.suggested_price = 1
  /\ Verdict(display.profit_info) = "InstantSellBetter"
  /\ display.profit = 0

\* The tuple of the "except Exception" clause of build_item_cache.
UnexpectedError == Msg("error", "Unexpected error building cache", 0)

\* C40: an exception that is no request failure, raised while a batch is
\* merged, ends the build at once: the step that reports it goes to the
\* finally block without another attempt and without another batch, with
\* no success, and leaves the live mapping and the file alone; and a
\* build that is in its finally block without success ends there, the
\* live mapping and the file still untouched, so that what the temporary
\* mapping held is lost.
C40_MergeErrorAbortsBuild ==
  [][\A b \in Builders :
       /\ (/\ build[b].pc = "batch"
           /\ StatusAppended # <<>>
           /\ StatusAppended[Len(StatusAppended)] = UnexpectedError)
            => /\ build'[b].pc = "finally"
               /\ ~build'[b].success
               /\ build'[b].i = build[b].i
               /\ build'[b].attempt = build[b].attempt
               /\ build'[b].fetched = build[b].fetched
               /\ build'[b].skipped = build[b].skipped
               /\ item_id_cache' = item_id_cache
               /\ cache_file' = cache_file
       /\ (build[b].pc = "finally" /\ ~build[b].success /\ build'[b] # build[b])
            => /\ build'[b] = IdleBuilder
               /\ item_id_cache' = item_id_cache
               /\ cache_file' = cache_file
               /\ ~cache_building'
               /\ cache_loaded' = (item_id_cache # EmptyDict)]_vars

\* The first of two batches has raised while it was merged: one name is
\* in the temporary mapping, the second batch has not been requested, and
\* the build is in its finally block without success.
C40_Witness ==
  \E b \in Builders :
    /\ build[b].pc = "finally"
    /\ ~build[b].success
    /\ build[b].temp_cache # EmptyDict
    /\ build[b].i = 0
    /\ build[b].fetched = {}
    /\ build[b].skipped = {}
    /\ NumBatches(Len(build[b].tp_item_ids)) > 1

====
